---- MODULE Spec2Model ----
(***************************************************************************)
(* The split-allocation and ledger part of src/app.py (a Streamlit script  *)
(* that records receipts in Google Drive and Google Sheets).               *)
(*                                                                         *)
(* Numbers.  The script computes with Python floats typed into             *)
(* st.number_input widgets, which return the number as typed (the widget's *)
(* two-decimal format only affects the display).  A decimal x is held here *)
(* as the integer x * One, on a grid of 0.002: finer than a cent, so that  *)
(* round(x, 2) is not the identity, and with no grid value halfway between *)
(* two cents, so that rounding a grid value never meets a decimal tie.     *)
(* A quotient or product that leaves the grid is held exactly, as a        *)
(* numerator over a denominator.                                           *)
(***************************************************************************)
EXTENDS Integers, Sequences, FiniteSets, TLC

VARIABLES
    tab_receipts,   \* rows of the "receipts" sheet below its header, oldest first
    tab_splits,     \* rows of the "splits" sheet below its header, oldest first
    drive_files,    \* number of documents uploaded to Drive; their ids are 1..drive_files
    folders,        \* names of the group folders that exist under jasmine/Splits
    pc,             \* where the running script is: "idle" when no run is in progress
    form,           \* widget values of the current (or last) run
    splits,         \* the script's list `splits` of the current (or last) run
    warn,           \* whether the run showed the interactive overshoot warning
    errs,           \* the errors validate_before_save returned in the run
    file_id,        \* the id upload_file returned in the run (0: none)
    history         \* what the History tab rendered in the run

vars == <<tab_receipts, tab_splits, drive_files, folders, pc, form, splits, warn,
          errs, file_id, history>>

----------------------------------------------------------------------------
(* Fixed-point numbers *)

Cent == 5
One == 100 * Cent
Hundred == 100 * One

\* A sheet cell or tuple slot holding a number num/den, or left empty ("").
Num(x) == [present |-> TRUE, num |-> x, den |-> 1]
Quot(n, d) == [present |-> TRUE, num |-> n, den |-> d]
Blank == [present |-> FALSE, num |-> 0, den |-> 1]

Max0(x) == IF x < 0 THEN 0 ELSE x

RECURSIVE SumSeq(_)
SumSeq(s) == IF s = <<>> THEN 0 ELSE Head(s) + SumSeq(Tail(s))

\* round(num/den, 2), num/den in grid units and den > 0.  Python rounds the
\* binary double nearest to the value, so a value that is a decimal tie
\* (x.xx5) goes up or down with its binary representation: `up` is that outcome.
Round2Q(num, den, up) ==
    LET d == den * Cent
        k == num \div d
        r == num % d
    IN  IF 2 * r < d THEN k * Cent
        ELSE IF 2 * r > d THEN (k + 1) * Cent
        ELSE IF up THEN (k + 1) * Cent ELSE k * Cent

\* round(x, 2) of a grid value (never a tie on this grid).
Round2(x) == Round2Q(x, 1, TRUE)

----------------------------------------------------------------------------
(* Program constants *)

NumSplitsMin == 1
NumSplitsMax == 10
ReceiptsMaxRows == 800
SplitsMaxRows == 2000
HLimitDefault == 50

Scopes == {"Receipt", "Tax", "Split"}
Buckets(scope) ==
    IF scope = "Receipt" THEN {"Spending", "Debt", "Etc"}
    ELSE IF scope = "Tax" THEN {"Health", "Zakat", "IT"}
    ELSE {""}
Methods == {"Equal split", "By amount", "By percent"}
Currencies == {"MYR", "SAR", "USD", "EUR"}
HScopes == {"All", "Receipt", "Tax", "Split"}

\* str.strip() on the merchant strings the model enters.
Strip(s) == IF s \in {"", " "} THEN "" ELSE s

----------------------------------------------------------------------------
(* CurrencyConverter *)

\* to_myr: the converted amount, or Blank where the code raises ValueError.
\* rates maps a subset of the currencies to a rate in grid units.
to_myr(amount, currency, rates) ==
    IF currency = "MYR" THEN Num(amount)
    ELSE IF currency \notin DOMAIN rates \/ rates[currency] = 0 THEN Blank
    ELSE Quot(amount * One, rates[currency])

AmountMyrZeroWhenUnavailable(f) ==
    IF f.fx_ok /\ to_myr(f.amount, f.currency, f.rates).present
    THEN to_myr(f.amount, f.currency, f.rates) ELSE Num(0)

\* amount_myr of the Add tab: None (Blank) when the rate fetch failed or to_myr raised.
AmountMyr(f) ==
    IF f.fx_ok THEN to_myr(f.amount, f.currency, f.rates) ELSE Blank

----------------------------------------------------------------------------
(* SplitAllocator: the Split UI of the Add tab *)

Tuple(name, amt, pct) == [split_to |-> name, amt |-> amt, pct |-> pct]

\* Equal split: the list `amounts` (empty when total_amount <= 0).
EqualAmountsNoRemainder(total, n, up) ==
    IF total > 0
    THEN [i \in 1..n |-> Round2Q(total, n, up)]
    ELSE <<>>

EqualAmounts(total, n, up) ==
    IF total > 0
    THEN LET per == Round2Q(total, n, up)
             amounts == [i \in 1..n |-> per]
             remainder == Round2(total - SumSeq(amounts))
         IN  [amounts EXCEPT ![1] = Round2(amounts[1] + remainder)]
    ELSE <<>>

\* By amount / By percent: the computed value of the last input, given the
\* rounded sum of the entered ones and the whole (total_amount or 100.0).
LastNoClamp(whole, prev) == Round2(whole - prev)

LastValue(whole, prev) ==
    LET remaining_val == Round2(whole - prev)
    IN  IF remaining_val < 0 THEN 0 ELSE remaining_val

\* prev_sum / prev_pct: round(sum(session_state list[0 : n-1]), 2).
PrevSum(entered) == Round2(SumSeq(entered))

\* By amount: the list `amounts`.
ByAmountAmounts(total, n, entered) ==
    [i \in 1..n |-> IF i < n THEN entered[i] ELSE LastValue(total, PrevSum(entered))]

ByPercentPctsUnrounded(n, entered) ==
    [i \in 1..n |-> IF i < n THEN entered[i] ELSE Max0(Hundred - SumSeq(entered))]

\* By percent: the list `pcts`.
ByPercentPcts(n, entered) ==
    [i \in 1..n |-> IF i < n THEN entered[i] ELSE LastValue(Hundred, PrevSum(entered))]

\* The list `splits` the Split UI builds (empty outside Split scope).
SplitUI(f, up) ==
    IF f.scope # "Split" THEN <<>>
    ELSE IF f.split_method = "Equal split"
    THEN LET amounts == EqualAmounts(f.amount, f.num_splits, up)
         IN  [i \in 1..Len(amounts) |-> Tuple(i, Num(amounts[i]), Blank)]
    ELSE IF f.split_method = "By amount"
    THEN LET amounts == ByAmountAmounts(f.amount, f.num_splits, f.entered)
         IN  [i \in 1..f.num_splits |-> Tuple(i, Num(amounts[i]), Blank)]
    ELSE LET pcts == ByPercentPcts(f.num_splits, f.entered)
         IN  [i \in 1..f.num_splits |-> Tuple(i, Blank, Num(pcts[i]))]

AmountWarningUnrounded(f) == SumSeq(f.entered) > f.amount

\* The interactive st.warning of the By amount and By percent branches.
AmountWarning(f) == PrevSum(f.entered) > f.amount
PercentWarning(f) == PrevSum(f.entered) > Hundred

Warning(f) ==
    /\ f.scope = "Split"
    /\ \/ f.split_method = "By amount" /\ AmountWarning(f)
       \/ f.split_method = "By percent" /\ PercentWarning(f)

----------------------------------------------------------------------------
(* SplitValidator: validate_before_save *)

ValidateNoAmountCheck(f) ==
    {e \in {"document"} : ~f.uploaded}
    \cup {e \in {"merchant"} : Strip(f.merchant) = ""}
    \cup {e \in {"group"} : f.scope = "Split" /\ f.split_group_name = ""}
    \cup {e \in {"split_amounts"} :
            /\ f.scope = "Split" /\ f.split_method = "By amount"
            /\ PrevSum(f.entered) > f.amount}
    \cup {e \in {"split_percents"} :
            /\ f.scope = "Split" /\ f.split_method = "By percent"
            /\ PrevSum(f.entered) > Hundred}

ValidateNoOvershootCheck(f) ==
    {e \in {"document"} : ~f.uploaded}
    \cup {e \in {"merchant"} : Strip(f.merchant) = ""}
    \cup {e \in {"amount"} : f.amount <= 0}
    \cup {e \in {"group"} : f.scope = "Split" /\ f.split_group_name = ""}

ValidateNoGroupCheck(f) ==
    {e \in {"document"} : ~f.uploaded}
    \cup {e \in {"merchant"} : Strip(f.merchant) = ""}
    \cup {e \in {"amount"} : f.amount <= 0}
    \cup {e \in {"split_amounts"} :
            /\ f.scope = "Split" /\ f.split_method = "By amount"
            /\ PrevSum(f.entered) > f.amount}
    \cup {e \in {"split_percents"} :
            /\ f.scope = "Split" /\ f.split_method = "By percent"
            /\ PrevSum(f.entered) > Hundred}

validate_before_save(f) ==
    {e \in {"document"} : ~f.uploaded}
    \cup {e \in {"merchant"} : Strip(f.merchant) = ""}
    \cup {e \in {"amount"} : f.amount <= 0}
    \cup {e \in {"group"} : f.scope = "Split" /\ f.split_group_name = ""}
    \cup {e \in {"split_amounts"} :
            /\ f.scope = "Split" /\ f.split_method = "By amount"
            /\ PrevSum(f.entered) > f.amount}
    \cup {e \in {"split_percents"} :
            /\ f.scope = "Split" /\ f.split_method = "By percent"
            /\ PrevSum(f.entered) > Hundred}

----------------------------------------------------------------------------
(* LedgerRecord model and LedgerWriter: the Save handler's rows *)

\* receipt_row, with the columns the ledger claims read (created_at,
\* purchase_date, notes, file_name and file_link are values passed through).
ReceiptRow(f, fid) ==
    [scope |-> f.scope,
     bucket |-> IF f.scope # "Split" THEN f.bucket ELSE "",
     split_group |-> IF f.scope = "Split" THEN f.split_group_name ELSE "",
     merchant |-> f.merchant,
     amount |-> Num(f.amount),
     currency |-> f.currency,
     amount_myr |-> AmountMyr(f),
     file_id |-> fid]

SplitRowNoGroup(fid, group, method, name, amt, pct) ==
    [receipt_file_id |-> fid, split_group |-> "", split_method |-> method,
     split_to |-> name, split_amount |-> amt, split_percent |-> pct]

SplitRow(fid, group, method, name, amt, pct) ==
    [receipt_file_id |-> fid, split_group |-> group, split_method |-> method,
     split_to |-> name, split_amount |-> amt, split_percent |-> pct]

\* float(x or 0) of a tuple slot.
FloatOr0(c) == IF c.present THEN c.num ELSE 0

\* split_amt of a By percent row: float(amount) * pct_val / 100.0, not rounded.
PercentShare(amount, pct_val) == Quot(amount * pct_val, Hundred)

SplitRowsSkipZero(f, sp, fid) ==
    LET Paid(t) == IF f.split_method = "By percent"
                   THEN FloatOr0(t.pct) # 0 ELSE FloatOr0(t.amt) # 0
        kept == SelectSeq(sp, Paid)
    IN  [i \in 1..Len(kept) |->
            IF f.split_method = "By percent"
            THEN SplitRow(fid, f.split_group_name, f.split_method, kept[i].split_to,
                          PercentShare(f.amount, FloatOr0(kept[i].pct)),
                          Num(FloatOr0(kept[i].pct)))
            ELSE SplitRow(fid, f.split_group_name, f.split_method, kept[i].split_to,
                          Num(FloatOr0(kept[i].amt)), Blank)]

\* split_rows of the Save handler.
SplitRows(f, sp, fid) ==
    IF f.split_method = "By percent"
    THEN [i \in 1..Len(sp) |->
            LET pct_val == FloatOr0(sp[i].pct)
            IN  SplitRow(fid, f.split_group_name, f.split_method, sp[i].split_to,
                         PercentShare(f.amount, pct_val), Num(pct_val))]
    ELSE [i \in 1..Len(sp) |->
            SplitRow(fid, f.split_group_name, f.split_method, sp[i].split_to,
                     Num(FloatOr0(sp[i].amt)), Blank)]

\* get_target_folder_id: the group folder it gets or creates under jasmine/Splits.
TargetFolders(f) ==
    IF f.scope = "Split" /\ f.split_group_name # "" THEN {f.split_group_name} ELSE {}

----------------------------------------------------------------------------
(* Read side: the History tab *)

Min(a, b) == IF a < b THEN a ELSE b

Reverse(s) == [i \in 1..Len(s) |-> s[Len(s) + 1 - i]]

\* fetch_rows: the data rows within the first max_rows sheet rows (the header
\* is row 1), newest first.
fetch_rows(tab, max_rows) == Reverse(SubSeq(tab, 1, Min(Len(tab), max_rows - 1)))

\* splits_by_receipt.get(rid, [])
SplitsByReceipt(splits_rows, rid) ==
    LET Of(s) == s.receipt_file_id = rid
    IN  SelectSeq(splits_rows, Of)

\* Sum of the share cells, over the common denominator of the cells.
SumCells(cells) ==
    LET d == IF \A i \in 1..Len(cells) : cells[i].den = 1 THEN 1 ELSE Hundred
    IN  Quot(SumSeq([i \in 1..Len(cells) |-> cells[i].num * (d \div cells[i].den)]), d)

\* remaining of the breakdown: round(total - sum_amt, 2), never negative.
RemainingNoClamp(total, sum_amt, up) ==
    Round2Q(total * sum_amt.den - sum_amt.num, sum_amt.den, up)

Remaining(total, sum_amt, up) ==
    LET remaining == Round2Q(total * sum_amt.den - sum_amt.num, sum_amt.den, up)
    IN  IF remaining < 0 THEN 0 ELSE remaining

HistoryEntryNoMissing(r, splits_rows, up) ==
    LET items == SplitsByReceipt(splits_rows, r.file_id)
        sum_amt == SumCells([i \in 1..Len(items) |-> items[i].split_amount])
    IN  IF r.scope # "Split"
        THEN [file_id |-> r.file_id, kind |-> "plain", method |-> "", items |-> <<>>,
              sum_amt |-> Num(0), remaining |-> 0]
        ELSE [file_id |-> r.file_id, kind |-> "breakdown",
              method |-> IF items = <<>> THEN "" ELSE items[1].split_method,
              items |-> items, sum_amt |-> sum_amt,
              remaining |-> Remaining(r.amount.num, sum_amt, up)]

\* What the expander of receipt r shows.
HistoryEntry(r, splits_rows, up) ==
    LET items == SplitsByReceipt(splits_rows, r.file_id)
        sum_amt == SumCells([i \in 1..Len(items) |-> items[i].split_amount])
    IN  IF r.scope # "Split"
        THEN [file_id |-> r.file_id, kind |-> "plain", method |-> "", items |-> <<>>,
              sum_amt |-> Num(0), remaining |-> 0]
        ELSE IF items = <<>>
        THEN [file_id |-> r.file_id, kind |-> "missing", method |-> "", items |-> <<>>,
              sum_amt |-> Num(0), remaining |-> 0]
        ELSE [file_id |-> r.file_id, kind |-> "breakdown",
              method |-> items[1].split_method, items |-> items,
              sum_amt |-> sum_amt,
              remaining |-> Remaining(r.amount.num, sum_amt, up)]

\* The History tab: one entry per receipt shown, newest first.
History(f, receipts, splts, up) ==
    LET receipts_rows == fetch_rows(receipts, ReceiptsMaxRows)
        splits_rows == fetch_rows(splts, SplitsMaxRows)
        Keep(r) == f.h_scope = "All" \/ r.scope = f.h_scope
        kept == SelectSeq(receipts_rows, Keep)
        filtered == SubSeq(kept, 1, Min(Len(kept), f.h_limit))
    IN  [i \in 1..Len(filtered) |-> HistoryEntry(filtered[i], splits_rows, up)]

----------------------------------------------------------------------------
(* Bounds and the inputs the model enters *)

MaxUploads == 2        \* saves that reach the document upload
MaxEdited == 2         \* inputs of a By amount / By percent split the user edits
MaxAllocAmount == 16   \* amounts 0 .. 0.032 in steps of 0.002 in the Split UI

\* The rate table: units of the currency per 1 MYR.
RateTables ==
    {[c \in {} |-> 0], [c \in {"USD"} |-> 0], [c \in {"USD"} |-> 4 * One + 20 * Cent],
     [c \in {"USD"} |-> 0 - (4 * One + 20 * Cent)]}

\* The page as first loaded: every widget at its default.
DefaultForm ==
    [uploaded |-> FALSE, merchant |-> "", amount |-> 0, currency |-> "MYR",
     fx_ok |-> TRUE, rates |-> [c \in {"USD"} |-> 4 * One + 20 * Cent],
     scope |-> "Receipt", bucket |-> "Spending", split_group_name |-> "",
     split_method |-> "", num_splits |-> 0, entered |-> <<>>,
     h_scope |-> "All", h_limit |-> HLimitDefault]

\* A form that passes validation, amount 0.03.
ValidForm ==
    [DefaultForm EXCEPT !.uploaded = TRUE, !.merchant = "Shop", !.amount = 3 * Cent]

SplitForm(group, amount, method, n, entered) ==
    [ValidForm EXCEPT !.scope = "Split", !.bucket = "", !.split_group_name = group,
                      !.amount = amount, !.split_method = method,
                      !.num_splits = n, !.entered = entered]

\* The n-1 entered values: the first MaxEdited are edited to values of V, the
\* others keep the widget default 0.0.
EnteredLists(n, V) ==
    {[i \in 1..(n - 1) |-> IF i <= MaxEdited THEN g[i] ELSE 0] :
        g \in [1..Min(n - 1, MaxEdited) -> V]}

\* Split UI inputs: every participant count, amounts below and on whole cents,
\* and the totals and entries of the documented scenarios (30, 50, 100, 150; 40%).
AllocAmounts == (0..MaxAllocAmount) \cup {50 * One, 100 * One}
AllocTotals == {0, 3 * Cent, 3 * Cent + 1, 50 * One, 100 * One}
AllocEnteredAmounts == {0, Cent - 1, 2 * Cent, 3 * Cent + 1, 30 * One, 150 * One}
AllocEnteredPercents == {0, 40 * One, 50 * One, 50 * One + 2, 100 * One}

AllocForms ==
    {SplitForm("Trip", a, "Equal split", n, <<>>) :
        a \in AllocAmounts, n \in NumSplitsMin..NumSplitsMax}
    \cup UNION {{SplitForm("Trip", a, "By amount", n, e) :
                    a \in AllocTotals, e \in EnteredLists(n, AllocEnteredAmounts)} :
                n \in NumSplitsMin..NumSplitsMax}
    \cup UNION {{SplitForm("Trip", a, "By percent", n, e) :
                    a \in AllocTotals, e \in EnteredLists(n, AllocEnteredPercents)} :
                n \in NumSplitsMin..NumSplitsMax}

\* Forms of the first save: one slice per concern around ValidForm.
LedgerAmounts == {3 * Cent, 3 * Cent + 1}
LedgerEnteredAmounts == {0, 2 * Cent, 3 * Cent + 1}
LedgerEnteredPercents == {0, 50 * One, 50 * One + 2}

SaveForms ==
    {[ValidForm EXCEPT !.uploaded = u, !.merchant = m, !.amount = a] :
        u \in BOOLEAN, m \in {"", " ", "Shop"}, a \in {0, 3 * Cent}}
    \cup UNION {{[ValidForm EXCEPT !.scope = s, !.bucket = b] : b \in Buckets(s)} :
                s \in {"Receipt", "Tax"}}
    \cup {[ValidForm EXCEPT !.currency = c, !.fx_ok = k, !.rates = r] :
            c \in {"MYR", "USD"}, k \in BOOLEAN, r \in RateTables}
    \cup {SplitForm(g, 3 * Cent, "Equal split", 1, <<>>) : g \in {"", "Home"}}
    \cup {SplitForm("Trip", a, "Equal split", n, <<>>) :
            a \in {0} \cup LedgerAmounts, n \in NumSplitsMin..NumSplitsMax}
    \cup UNION {{SplitForm("Trip", a, "By amount", n, e) :
                    a \in LedgerAmounts, e \in EnteredLists(n, LedgerEnteredAmounts)} :
                n \in 1..(MaxEdited + 1)}
    \cup UNION {{SplitForm("Trip", a, "By percent", n, e) :
                    a \in LedgerAmounts, e \in EnteredLists(n, LedgerEnteredPercents)} :
                n \in 1..(MaxEdited + 1)}
    \cup {SplitForm("Trip", 50 * One, "By percent", 2, <<40 * One>>)}
    \cup {SplitForm("Trip", 3 * Cent + 2, "By amount", 2, <<Cent - 2>>),
          SplitForm("Trip", 3 * Cent + 3, "By amount", 2, <<Cent + 2>>)}

\* Forms of the saves after the first (a run reads nothing of the rows already
\* in the ledger, so these are few): a plain receipt, a blocked save, and one
\* split per method, the last two in another group.
LaterForms ==
    {ValidForm,
     [ValidForm EXCEPT !.merchant = ""],
     SplitForm("Trip", 3 * Cent, "Equal split", 2, <<>>),
     SplitForm("Home", 3 * Cent, "By amount", 2, <<2 * Cent>>),
     SplitForm("Home", 3 * Cent, "By percent", 2, <<50 * One>>),
     SplitForm("Home", 3 * Cent, "By amount", 2, <<4 * Cent>>)}

ViewForms == {[DefaultForm EXCEPT !.h_scope = h] : h \in HScopes}

----------------------------------------------------------------------------
(* The script: one run per widget interaction *)

Init ==
    /\ tab_receipts = <<>>
    /\ tab_splits = <<>>
    /\ drive_files = 0
    /\ folders = {}
    /\ pc = "idle"
    /\ form = DefaultForm
    /\ splits = <<>>
    /\ warn = FALSE
    /\ errs = {}
    /\ file_id = 0
    /\ history = <<>>

AfterUploadSplitsFirst == "append_splits"

\* What the Save handler does once upload_file has returned.
AfterUpload == "append_receipt"

\* A run of the script with widget values f, up to the document upload:
\* the Add tab, then the Save handler if the button was pressed (save), else
\* the History tab.  st.stop() after validation errors ends the run before
\* the History tab is rendered.
Script(f, save, up) ==
    /\ pc = "idle"
    /\ form' = f
    /\ splits' = SplitUI(f, up)
    /\ warn' = Warning(f)
    /\ folders' = folders \cup TargetFolders(f)
    /\ file_id' = 0
    /\ UNCHANGED <<tab_receipts, tab_splits, drive_files>>
    /\ IF ~save
       THEN /\ errs' = {}
            /\ history' = History(f, tab_receipts, tab_splits, up)
            /\ pc' = "idle"
       ELSE /\ errs' = validate_before_save(f)
            /\ history' = <<>>
            /\ pc' = IF validate_before_save(f) # {} THEN "idle" ELSE "upload"

Rerun(f, up) == Script(f, FALSE, up)

PressSave(f, up) == drive_files < MaxUploads /\ Script(f, TRUE, up)

\* upload_file returns a fresh file id.
UploadOk ==
    /\ pc = "upload"
    /\ drive_files' = drive_files + 1
    /\ file_id' = drive_files + 1
    /\ pc' = AfterUpload
    /\ UNCHANGED <<tab_receipts, tab_splits, folders, form, splits, warn, errs, history>>

\* An external call raises: the exception ends the run.
Raise(at) ==
    /\ pc = at
    /\ pc' = "idle"
    /\ UNCHANGED <<tab_receipts, tab_splits, drive_files, folders, form, splits, warn,
                   errs, file_id, history>>

UploadFail == Raise("upload")

\* append_row(TAB_RECEIPTS, receipt_row); outside Split scope the handler is
\* done and the run goes on to render the History tab.
AppendReceiptOk ==
    /\ pc = "append_receipt"
    /\ tab_receipts' = Append(tab_receipts, ReceiptRow(form, file_id))
    /\ IF form.scope = "Split"
       THEN pc' = "append_splits" /\ UNCHANGED history
       ELSE /\ pc' = "idle"
            /\ \E up \in BOOLEAN :
                 history' = History(form, tab_receipts', tab_splits, up)
    /\ UNCHANGED <<tab_splits, drive_files, folders, form, splits, warn, errs, file_id>>

AppendReceiptFail == Raise("append_receipt")

\* append_rows(TAB_SPLITS, split_rows), then the History tab.
AppendSplitsOk ==
    /\ pc = "append_splits"
    /\ tab_splits' = tab_splits \o SplitRows(form, splits, file_id)
    /\ pc' = "idle"
    /\ \E up \in BOOLEAN : history' = History(form, tab_receipts, tab_splits', up)
    /\ UNCHANGED <<tab_receipts, drive_files, folders, form, splits, warn, errs, file_id>>

AppendSplitsFail == Raise("append_splits")

Next ==
    \/ \E f \in ViewForms, up \in BOOLEAN : Rerun(f, up)
    \/ \E f \in (IF drive_files = 0 THEN SaveForms ELSE LaterForms), up \in BOOLEAN :
          PressSave(f, up)
    \/ UploadOk
    \/ UploadFail
    \/ AppendReceiptOk
    \/ AppendReceiptFail
    \/ AppendSplitsOk
    \/ AppendSplitsFail

Spec == Init /\ [][Next]_vars

\* The Split UI alone: one rerun of the freshly loaded page with the Add form
\* filled in, nothing saved (a run reads nothing of the run before it).
AllocNext ==
    /\ form = DefaultForm
    /\ \E f \in AllocForms, up \in BOOLEAN : Rerun(f, up)

AllocSpec == Init /\ [][AllocNext]_vars

\* The History tab over a long ledger: a fresh session opened on the ledger
\* that k completed saves of a 10-way Equal split of 100.00 have left (each
\* save appended its receipt row and then its batch of 10 lines), followed by
\* one run with the History widgets set.
MinSplitSaves == 196
MaxSplitSaves == 202
MaxLimitSteps == 4
HLimitMin == 10
HLimitStep == 10

LongForm == SplitForm("Trip", 100 * One, "Equal split", NumSplitsMax, <<>>)

LongReceipts(k) == [j \in 1..k |-> ReceiptRow(LongForm, j)]

LongSplits(k) ==
    LET batch == SplitRows(LongForm, SplitUI(LongForm, TRUE), 0)
    IN  [i \in 1..(k * NumSplitsMax) |->
            [batch[((i - 1) % NumSplitsMax) + 1]
                EXCEPT !.receipt_file_id = ((i - 1) \div NumSplitsMax) + 1]]

HistoryViewForms ==
    {[DefaultForm EXCEPT !.h_scope = h, !.h_limit = HLimitMin + HLimitStep * l] :
        h \in HScopes, l \in 0..MaxLimitSteps}

LongInit ==
    /\ \E k \in MinSplitSaves..MaxSplitSaves :
         /\ tab_receipts = LongReceipts(k)
         /\ tab_splits = LongSplits(k)
         /\ drive_files = k
    /\ folders = {"Trip"}
    /\ pc = "idle"
    /\ form = DefaultForm
    /\ splits = <<>>
    /\ warn = FALSE
    /\ errs = {}
    /\ file_id = 0
    /\ history = <<>>

LongNext ==
    /\ history = <<>>
    /\ \E f \in HistoryViewForms, up \in BOOLEAN : Rerun(f, up)

LongSpec == LongInit /\ [][LongNext]_vars

----------------------------------------------------------------------------
(* Claims about the Split UI (checked under AllocSpec unless said otherwise) *)

WholeCents(x) == x % Cent = 0

\* The share amounts / percents of the list `splits` of the run.
ShareAmounts == [i \in 1..Len(splits) |-> splits[i].amt.num]
SharePercents == [i \in 1..Len(splits) |-> splits[i].pct.num]

Dist(x, y) == IF x < y THEN y - x ELSE x - y

InSplit(method) == form.scope = "Split" /\ form.split_method = method

\* C1: under Equal split, for every positive total that is a whole number of
\* cents and every n in 1..10, the n shares sum to exactly the total; total 100
\* and n = 3 give [33.34, 33.33, 33.33].
C1_EqualSharesSumToTotal ==
    (InSplit("Equal split") /\ form.amount > 0 /\ WholeCents(form.amount)
        /\ form.num_splits \in 1..10)
    => /\ Len(splits) = form.num_splits
       /\ SumSeq(ShareAmounts) = form.amount
       /\ (form.amount = 100 * One /\ form.num_splits = 3)
            => ShareAmounts = <<33 * One + 34 * Cent, 33 * One + 33 * Cent,
                                33 * One + 33 * Cent>>

C1_Witness ==
    /\ InSplit("Equal split") /\ form.amount = 100 * One /\ form.num_splits = 3
    /\ ShareAmounts = <<33 * One + 34 * Cent, 33 * One + 33 * Cent, 33 * One + 33 * Cent>>

C4_LastPercentExact ==
    InSplit("By percent")
    => LET n == form.num_splits
           sum_p == SumSeq(form.entered)
       IN  /\ SharePercents[n] = Max0(Hundred - sum_p)
           /\ sum_p <= Hundred => SumSeq(SharePercents) = Hundred
           /\ \A i \in 1..n : SharePercents[i] >= 0 /\ SharePercents[i] <= Hundred

\* C4 amended: the last percent is a multiple of 0.01 within 0.01 of
\* max(0, 100 - sum(p)), and every percent lies in [0,100]; when every entered
\* percent is a multiple of 0.01 it is exactly max(0, 100 - sum(p)) and, when
\* sum(p) <= 100, the n percents sum to 100.
C4_LastPercentToTwoDecimals ==
    InSplit("By percent")
    => LET n == form.num_splits
           sum_p == SumSeq(form.entered)
           exact == Max0(Hundred - sum_p)
       IN  /\ Len(splits) = n
           /\ \A i \in 1..(n - 1) : SharePercents[i] = form.entered[i]
           /\ WholeCents(SharePercents[n])
           /\ Dist(SharePercents[n], exact) < Cent
           /\ \A i \in 1..n : SharePercents[i] >= 0 /\ SharePercents[i] <= Hundred
           /\ (\A i \in 1..(n - 1) : WholeCents(form.entered[i]))
                => /\ SharePercents[n] = exact
                   /\ sum_p <= Hundred => SumSeq(SharePercents) = Hundred

\* Scenario D: total 50, n = 2, entered 40% gives percents [40, 60].
C4_Witness ==
    /\ InSplit("By percent") /\ form.amount = 50 * One
    /\ SharePercents = <<40 * One, 60 * One>>

----------------------------------------------------------------------------
(* Claims about the saved ledger (checked under Spec) *)

ReceiptIdx(rid) == {j \in 1..Len(tab_receipts) : tab_receipts[j].file_id = rid}
LineIdx(rid) == {i \in 1..Len(tab_splits) : tab_splits[i].receipt_file_id = rid}
Lines(rid) ==
    LET Of(s) == s.receipt_file_id = rid
    IN  SelectSeq(tab_splits, Of)

\* The value of a cell is a whole number of cents.
CellWholeCents(c) == c.num % (c.den * Cent) = 0

\* C2: every split-line row of the splits table has share_amount >= 0,
\* whichever policy produced it.
C2_SharesNonNegative ==
    \A i \in 1..Len(tab_splits) : tab_splits[i].split_amount.num >= 0

\* C5: every By percent split line has share_amount equal to
\* total * percent / 100 rounded to 2 decimals, a whole number of cents.
C5_PercentShareRounded ==
    \A i \in 1..Len(tab_splits) :
        tab_splits[i].split_method = "By percent"
        => \A j \in ReceiptIdx(tab_splits[i].receipt_file_id) :
             LET row == tab_splits[i]
                 product == tab_receipts[j].amount.num * row.split_percent.num
             IN  /\ CellWholeCents(row.split_amount)
                 /\ \E up \in BOOLEAN :
                      row.split_amount.num
                        = row.split_amount.den * Round2Q(product, Hundred, up)

\* The conditions under which the claim says validation fails.
InvalidAsClaimed(f) ==
    \/ ~f.uploaded
    \/ f.merchant = ""
    \/ f.amount <= 0
    \/ f.scope = "Split" /\ f.split_group_name = ""
    \/ f.scope = "Split" /\ f.split_method = "By amount" /\ SumSeq(f.entered) > f.amount
    \/ f.scope = "Split" /\ f.split_method = "By percent" /\ SumSeq(f.entered) > Hundred

\* The same, with the overshoot taken on the sum rounded to 2 decimals.
InvalidToTwoDecimals(f) ==
    \/ ~f.uploaded
    \/ f.merchant = ""
    \/ f.amount <= 0
    \/ f.scope = "Split" /\ f.split_group_name = ""
    \/ /\ f.scope = "Split" /\ f.split_method = "By amount"
       /\ Round2(SumSeq(f.entered)) > f.amount
    \/ /\ f.scope = "Split" /\ f.split_method = "By percent"
       /\ Round2(SumSeq(f.entered)) > Hundred

\* A run that starts with an invalid form stops with nothing written, and
\* nothing is ever uploaded or appended for an invalid form.
Blocked(Invalid(_)) ==
    /\ (pc = "idle" /\ Invalid(form'))
         => (pc' = "idle" /\ UNCHANGED <<tab_receipts, tab_splits, drive_files>>)
    /\ (tab_receipts' # tab_receipts \/ tab_splits' # tab_splits
            \/ drive_files' # drive_files)
         => (pc # "idle" /\ ~Invalid(form))

C7_WriteOrder ==
    [][/\ drive_files' # drive_files
            => /\ pc = "upload" /\ drive_files' = drive_files + 1
               /\ file_id' = drive_files'
               /\ UNCHANGED <<tab_receipts, tab_splits>>
       /\ tab_receipts' # tab_receipts
            => /\ file_id >= 1 /\ file_id = drive_files
               /\ ReceiptIdx(file_id) = {} /\ LineIdx(file_id) = {}
               /\ Len(tab_receipts') = Len(tab_receipts) + 1
               /\ SubSeq(tab_receipts', 1, Len(tab_receipts)) = tab_receipts
               /\ tab_receipts'[Len(tab_receipts')].file_id = file_id
               /\ UNCHANGED tab_splits
       /\ tab_splits' # tab_splits
            => /\ form.scope = "Split"
               /\ Cardinality(ReceiptIdx(file_id)) = 1 /\ LineIdx(file_id) = {}
               /\ Len(tab_splits') = Len(tab_splits) + Len(splits)
               /\ SubSeq(tab_splits', 1, Len(tab_splits)) = tab_splits
               /\ \A i \in (Len(tab_splits) + 1)..Len(tab_splits') :
                    tab_splits'[i].receipt_file_id = file_id
               /\ UNCHANGED tab_receipts
      ]_vars

\* A completed Split save: uploaded, receipt row and its lines written.
C7_Witness ==
    /\ pc = "idle" /\ file_id >= 1 /\ form.scope = "Split"
    /\ Cardinality(ReceiptIdx(file_id)) = 1
    /\ Cardinality(LineIdx(file_id)) = form.num_splits

\* C8: every split-line row references the file id of exactly one receipt
\* row, which has scope Split and the line's split_group; no receipt of scope
\* Receipt or Tax is referenced by a split line.
C8_LinesReferenceTheirReceipt ==
    /\ \A i \in 1..Len(tab_splits) :
         /\ Cardinality(ReceiptIdx(tab_splits[i].receipt_file_id)) = 1
         /\ \A j \in ReceiptIdx(tab_splits[i].receipt_file_id) :
              /\ tab_receipts[j].scope = "Split"
              /\ tab_receipts[j].split_group = tab_splits[i].split_group
    /\ \A j \in 1..Len(tab_receipts) :
         tab_receipts[j].scope # "Split" => LineIdx(tab_receipts[j].file_id) = {}

\* Two Split receipts of different groups, each with its lines, in one ledger.
C8_Witness ==
    /\ Len(tab_receipts) = 2
    /\ tab_receipts[1].scope = "Split" /\ tab_receipts[2].scope = "Split"
    /\ tab_receipts[1].split_group # tab_receipts[2].split_group
    /\ LineIdx(tab_receipts[1].file_id) # {} /\ LineIdx(tab_receipts[2].file_id) # {}

\* C9: when the split-line batch append fails after the receipt row was
\* appended, the ledger holds a Split receipt with no split lines; History
\* shows every such receipt with the "no split breakdown found" entry, not a
\* breakdown with totals.
C9_OrphanReportedMissing ==
    /\ [][(pc = "append_splits" /\ pc' = "idle" /\ tab_splits' = tab_splits)
            => \E j \in ReceiptIdx(file_id) :
                 /\ tab_receipts'[j].scope = "Split"
                 /\ LineIdx(file_id) = {}]_vars
    /\ [](\A i \in 1..Len(history) :
            \A j \in ReceiptIdx(history[i].file_id) :
              (tab_receipts[j].scope = "Split" /\ LineIdx(history[i].file_id) = {})
              => (history[i].kind = "missing" /\ history[i].items = <<>>))

\* History showing a Split receipt whose lines were never written.
C9_Witness ==
    \E i \in 1..Len(history) :
        /\ history[i].kind = "missing"
        /\ \E j \in ReceiptIdx(history[i].file_id) : tab_receipts[j].scope = "Split"
        /\ LineIdx(history[i].file_id) = {}

\* The lines of receipt j all carry one policy.
SamePolicy(j) ==
    \A i, k \in LineIdx(tab_receipts[j].file_id) :
        tab_splits[i].split_method = tab_splits[k].split_method

\* Sum of share_amount of the lines of receipt j, against the receipt's amount.
ShareSum(j) ==
    LET ls == Lines(tab_receipts[j].file_id)
    IN  SumCells([i \in 1..Len(ls) |-> ls[i].split_amount])

SumWithinAmount(j) ==
    LET sum == ShareSum(j)
        amount == tab_receipts[j].amount.num
        method == tab_splits[CHOOSE i \in LineIdx(tab_receipts[j].file_id) : TRUE].split_method
    IN  /\ sum.num <= amount * sum.den
        /\ method = "Equal split" => sum.num = amount * sum.den

\* C10 as claimed: for every Split receipt that has split lines, all its
\* lines carry the same policy and their share_amount sum to at most the
\* receipt's amount, to exactly the amount under Equal split.
C10_SumWithinAmountAsClaimed ==
    \A j \in 1..Len(tab_receipts) :
        (tab_receipts[j].scope = "Split" /\ LineIdx(tab_receipts[j].file_id) # {})
        => SamePolicy(j) /\ SumWithinAmount(j)

\* The amount of receipt j, and the entered amounts or percents its lines
\* record, are whole to 2 decimals.
TwoDecimalInputs(j) ==
    /\ WholeCents(tab_receipts[j].amount.num)
    /\ \A i \in LineIdx(tab_receipts[j].file_id) :
         /\ tab_splits[i].split_method = "By amount"
              => CellWholeCents(tab_splits[i].split_amount)
         /\ tab_splits[i].split_method = "By percent"
              => CellWholeCents(tab_splits[i].split_percent)

\* C10 amended: all lines of a Split receipt carry the same policy; when the
\* receipt's amount and the entered amounts or percents are whole to 2
\* decimals, the shares sum to at most the amount, to exactly the amount under
\* Equal split.
C10_SumWithinAmount ==
    \A j \in 1..Len(tab_receipts) :
        (tab_receipts[j].scope = "Split" /\ LineIdx(tab_receipts[j].file_id) # {})
        => /\ SamePolicy(j)
           /\ TwoDecimalInputs(j) => SumWithinAmount(j)

\* A By amount receipt of 0.03 split 0.02 + 0.01 beside an Equal split one.
C10_Witness ==
    \E j, k \in 1..Len(tab_receipts) :
        /\ tab_receipts[j].scope = "Split" /\ tab_receipts[k].scope = "Split"
        /\ TwoDecimalInputs(j) /\ TwoDecimalInputs(k)
        /\ \E i \in LineIdx(tab_receipts[j].file_id) :
             tab_splits[i].split_method = "By amount" /\ tab_splits[i].split_amount.num = Cent
        /\ \E i \in LineIdx(tab_receipts[k].file_id) :
             tab_splits[i].split_method = "Equal split"

----------------------------------------------------------------------------
(* Claims about the History tab (checked under Spec) *)

\* The breakdowns the History tab shows, each with the amount of its receipt.
Breakdowns ==
    {b \in {[amount |-> tab_receipts[j].amount.num, rid |-> tab_receipts[j].file_id,
              e |-> history[i]] : i \in 1..Len(history), j \in 1..Len(tab_receipts)} :
        b.e.kind = "breakdown" /\ b.e.file_id = b.rid}

\* C11 as claimed: in the breakdown of a Split receipt, with sum_amount the sum
\* of the joined lines' share_amount, remaining = max(0, amount - sum_amount):
\* sum_amount + remaining = amount whenever sum_amount <= amount, and
\* remaining = 0 whenever sum_amount > amount.
C11_RemainingExact ==
    \A b \in Breakdowns :
        LET den == b.e.sum_amt.den
            sum == b.e.sum_amt.num
        IN  /\ b.e.remaining * den = Max0(b.amount * den - sum)
            /\ sum <= b.amount * den => sum + b.e.remaining * den = b.amount * den
            /\ sum > b.amount * den => b.e.remaining = 0

\* C11 amended: remaining is amount - sum_amount rounded to 2 decimals and
\* never negative: a whole number of cents at most half a cent away from
\* max(0, amount - sum_amount), and 0 whenever sum_amount > amount; when the
\* amount and sum_amount are whole to 2 decimals and sum_amount <= amount,
\* sum_amount + remaining = amount.
C11_RemainingToTheCent ==
    \A b \in Breakdowns :
        LET den == b.e.sum_amt.den
            sum == b.e.sum_amt.num
        IN  /\ b.e.remaining >= 0 /\ WholeCents(b.e.remaining)
            /\ 2 * Dist(b.e.remaining * den, Max0(b.amount * den - sum)) <= Cent * den
            /\ sum > b.amount * den => b.e.remaining = 0
            /\ (WholeCents(b.amount) /\ CellWholeCents(b.e.sum_amt)
                    /\ sum <= b.amount * den)
                 => sum + b.e.remaining * den = b.amount * den

\* History shows a receipt of 0.034 split 0.006 + 0.02 with remaining 0.01.
C11_Witness ==
    \E b \in Breakdowns :
        /\ b.e.method = "By amount" /\ Len(b.e.items) = 2
        /\ b.amount = 3 * Cent + 2 /\ b.e.sum_amt.num = (Cent - 2) + 2 * Cent
        /\ b.e.remaining = Cent

----------------------------------------------------------------------------
(* Claims about the receipt rows (checked under Spec) *)

\* The rate source failed, or the chosen currency is not MYR and its rate is
\* missing or zero.
ConversionUnavailable(f) ==
    \/ ~f.fx_ok
    \/ /\ f.currency # "MYR"
       /\ (f.currency \notin DOMAIN f.rates \/ f.rates[f.currency] = 0)

\* C12: when the rate of the chosen non-base currency is missing or zero, or
\* the rate source failed, the conversion failure is not fatal: a run whose
\* form is otherwise valid reports no error, and the receipt row the save
\* appends has amount_myr empty.
C12_ConversionFailureNonFatal ==
    [][/\ (pc = "idle" /\ ConversionUnavailable(form') /\ ~InvalidToTwoDecimals(form'))
            => /\ errs' = {}
               /\ pc' \in {"idle", "upload"}
       /\ (tab_receipts' # tab_receipts /\ ConversionUnavailable(form))
            => /\ Len(tab_receipts') = Len(tab_receipts) + 1
               /\ tab_receipts'[Len(tab_receipts')].amount_myr = Blank
               /\ tab_receipts'[Len(tab_receipts')].amount = Num(form.amount)
               /\ tab_receipts'[Len(tab_receipts')].currency = form.currency
      ]_vars

\* A USD receipt saved with a zero USD rate: its row has no amount_myr.
C12_Witness ==
    /\ pc = "idle" /\ file_id >= 1
    /\ form.fx_ok /\ form.currency = "USD"
    /\ "USD" \in DOMAIN form.rates /\ form.rates["USD"] = 0
    /\ \E j \in ReceiptIdx(file_id) :
         /\ tab_receipts[j].currency = "USD" /\ tab_receipts[j].amount.num = 3 * Cent
         /\ tab_receipts[j].amount_myr = Blank

\* The parts of the receipt-row invariant that hold whatever the rate table:
\* amount > 0, a merchant, a split group under Split and a category otherwise,
\* and amount_myr equal to the amount when the currency is MYR.
RowWellFormed(r) ==
    /\ r.amount.present /\ r.amount.num > 0
    /\ r.merchant # ""
    /\ r.scope = "Split" => r.split_group # ""
    /\ r.scope # "Split" => r.bucket \in Buckets(r.scope)
    /\ (r.amount_myr.present /\ r.currency = "MYR") => r.amount_myr = r.amount

\* The cell holds a number >= 0.
CellNonNegative(c) == (c.num >= 0 /\ c.den > 0) \/ (c.num <= 0 /\ c.den < 0)

\* C13 as claimed: every receipt row has amount > 0 and a non-empty merchant;
\* scope Split implies a non-empty split_group and any other scope a
\* non-empty category; amount_myr, when present, is non-negative and equals
\* the amount when the currency is MYR, for any rate table.
C13_ReceiptRowsAsClaimed ==
    \A j \in 1..Len(tab_receipts) :
        /\ RowWellFormed(tab_receipts[j])
        /\ tab_receipts[j].amount_myr.present => CellNonNegative(tab_receipts[j].amount_myr)

\* C13 amended: the same, for any rate table, except that amount_myr is
\* non-negative when the currency is MYR or the rate of the currency is not
\* negative.
C13_ReceiptRows ==
    /\ [](\A j \in 1..Len(tab_receipts) : RowWellFormed(tab_receipts[j]))
    /\ [][tab_receipts' # tab_receipts
            => LET r == tab_receipts'[Len(tab_receipts')]
               IN  (r.amount_myr.present
                      /\ (form.currency = "MYR" \/ form.rates[form.currency] >= 0))
                   => CellNonNegative(r.amount_myr)
         ]_vars

\* A Split receipt in a group beside a USD receipt converted at 4.20.
C13_Witness ==
    \E j, k \in 1..Len(tab_receipts) :
        /\ tab_receipts[j].currency = "USD"
        /\ tab_receipts[j].amount_myr = Quot(3 * Cent * One, 4 * One + 20 * Cent)
        /\ tab_receipts[k].scope = "Split" /\ tab_receipts[k].split_group = "Home"
        /\ tab_receipts[k].amount_myr = tab_receipts[k].amount

----------------------------------------------------------------------------
(* Claims about the tables as a whole (checked under Spec) *)

\* tab' is tab with k rows appended.
Appended(tab, k, tabNew) ==
    /\ Len(tabNew) = Len(tab) + k
    /\ SubSeq(tabNew, 1, Len(tab)) = tab

\* C14: the tables are append-only.  A save that succeeds appends exactly one
\* receipt row and, under Split scope with n participants, exactly n
\* split-line rows, none under Receipt or Tax scope; every row written before
\* stays as it was; a run that only reads History (or is blocked) changes no row.
C14_AppendOnly ==
    [][/\ \E k \in {0, 1} : Appended(tab_receipts, k, tab_receipts')
       /\ \E k \in {0, form.num_splits} : Appended(tab_splits, k, tab_splits')
       /\ pc = "idle" => UNCHANGED <<tab_receipts, tab_splits>>
       /\ pc = "upload" => UNCHANGED <<tab_receipts, tab_splits>>
       /\ (pc = "append_receipt" /\ pc' # "idle")
            => /\ form.scope = "Split" /\ form.num_splits \in NumSplitsMin..NumSplitsMax
               /\ Appended(tab_receipts, 1, tab_receipts') /\ UNCHANGED tab_splits
       /\ (pc = "append_receipt" /\ pc' = "idle" /\ history' # history)
            => /\ form.scope \in {"Receipt", "Tax"}
               /\ Appended(tab_receipts, 1, tab_receipts') /\ UNCHANGED tab_splits
       /\ (pc = "append_splits" /\ history' # history)
            => /\ Appended(tab_splits, form.num_splits, tab_splits')
               /\ UNCHANGED tab_receipts
               /\ Cardinality(LineIdx(file_id)') = form.num_splits
       /\ tab_splits' # tab_splits => form.scope = "Split"
      ]_vars

\* A Split save of 2 lines completed after a Split save of 10 lines, History shown.
C14_Witness ==
    /\ pc = "idle" /\ Len(tab_receipts) = 2 /\ history # <<>>
    /\ Cardinality(LineIdx(tab_receipts[1].file_id)) = NumSplitsMax
    /\ Cardinality(LineIdx(tab_receipts[2].file_id)) = 2
    /\ Len(tab_splits) = NumSplitsMax + 2

----------------------------------------------------------------------------
(* Claims about the overshoot rule (checked under Spec) *)

\* In the state a Save press leaves, warn is the warning the Split UI showed
\* in that run and errs what validate_before_save returned in it.
SameRule(Overshoot(_, _)) ==
    /\ InSplit("By amount")
         => /\ warn <=> "split_amounts" \in errs
            /\ warn <=> Overshoot(form.entered, form.amount)
            /\ "split_percents" \notin errs
    /\ InSplit("By percent")
         => /\ warn <=> "split_percents" \in errs
            /\ warn <=> Overshoot(form.entered, Hundred)
            /\ "split_amounts" \notin errs
    /\ (~InSplit("By amount") /\ ~InSplit("By percent"))
         => (~warn /\ "split_amounts" \notin errs /\ "split_percents" \notin errs)

SumAbove(entered, whole) == SumSeq(entered) > whole
RoundedSumAbove(entered, whole) == Round2(SumSeq(entered)) > whole

\* C15 as claimed: under By amount (By percent) the interactive warning is
\* shown if and only if validation returns the overshoot error, and both fire
\* exactly when the entered non-last amounts sum above the total (the entered
\* non-last percents sum above 100).
C15_SameOvershootRuleAsClaimed == SameRule(SumAbove)

\* C15 amended: the warning is shown if and only if validation returns the
\* overshoot error, and both fire exactly when the sum of the entered non-last
\* amounts (percents), rounded to 2 decimals, is above the total (above 100).
C15_SameOvershootRule == SameRule(RoundedSumAbove)

\* A Save press under By amount with entries 0.02 + 0.02 against a total of
\* 0.03: warned and blocked.
C15_Witness ==
    /\ InSplit("By amount") /\ form.amount = 3 * Cent
    /\ form.entered = <<2 * Cent, 2 * Cent>>
    /\ warn /\ "split_amounts" \in errs /\ pc = "idle"

----------------------------------------------------------------------------
(* Claims about the History join (checked under LongSpec) *)

\* All the split-line rows of the table that reference rid, newest first.
AllLinesOf(rid) ==
    LET Of(s) == s.receipt_file_id = rid
    IN  Reverse(SelectSeq(tab_splits, Of))

\* C16: for every Split receipt History shows, the breakdown joins all the
\* split-line rows of the table whose receipt_file_id is the receipt's
\* file_id, and only those; "no split breakdown found" is reported only when
\* the table holds no such row.
C16_BreakdownJoinsAllLines ==
    \A i \in 1..Len(history) :
        /\ history[i].kind = "breakdown" => history[i].items = AllLinesOf(history[i].file_id)
        /\ history[i].kind = "missing" => AllLinesOf(history[i].file_id) = <<>>

====
